---- MODULE Spec2Model ----
(***************************************************************************)
(* Model of VintageMacDebug/Debug.c: a file logger for Classic Mac OS.     *)
(*                                                                         *)
(* The program state is the two statics gDebugRefNum and gDebugEnabled.    *)
(* The File Manager it calls (FSDelete, Create, FSOpen, FSWrite, FSClose)  *)
(* is modelled by the variables fcb (the open access paths) and disk (the  *)
(* files), and every File Manager call takes its outcome from an           *)
(* environment record chosen nondeterministically by the calling action.   *)
(* C strings are sequences of one-character strings; a char pointer is a   *)
(* record that is either nil or holds the characters before the NUL.       *)
(* io, beeps and lastCall record what the last call of the API did.        *)
(* session is a history variable: the records the log file is expected to  *)
(* hold since the last successful DebugInit, kept while every write        *)
(* arrives in full.                                                        *)
(***************************************************************************)
EXTENDS Integers, Sequences, FiniteSets, TLC

VARIABLES gDebugRefNum, gDebugEnabled, fcb, disk, io, beeps, lastCall, ops,
          session

vars ==
  <<gDebugRefNum, gDebugEnabled, fcb, disk, io, beeps, lastCall, ops, session>>

(***************************************************************************)
(* Bounds of the model.                                                    *)
(***************************************************************************)
\* number of API calls in one run
MaxOps == 3
\* the File Manager hands out reference numbers 1..MaxRefNum
MaxRefNum == 2

(***************************************************************************)
(* Program constants.                                                      *)
(***************************************************************************)
noErr == 0
\* any non-zero OSErr; the code only ever tests err != noErr
ioErr == -36
MyStrLenCap == 32000
MaxPascalLen == 255
NumBufDigits == 19

(***************************************************************************)
(* C strings.                                                              *)
(***************************************************************************)
nil == [nil |-> TRUE, chars |-> <<>>]

CStr(s) == [nil |-> FALSE, chars |-> s]

Min(a, b) == IF a < b THEN a ELSE b

MyStrLen(str) == IF str.nil THEN 0 ELSE Min(Len(str.chars), MyStrLenCap)

headerMsg ==
  CStr(<<"D","E","B","U","G"," ","L","O","G"," ",
         "I","N","I","T","I","A","L","I","Z","E","D","\r">>)

endMsg ==
  CStr(<<"D","E","B","U","G"," ","L","O","G"," ","C","L","O","S","E","D","\r">>)

newline == "\r"

hexChars == <<"0","1","2","3","4","5","6","7","8","9","A","B","C","D","E","F">>

decChars == <<"0","1","2","3","4","5","6","7","8","9">>

(***************************************************************************)
(* The inputs the actions draw from.                                       *)
(***************************************************************************)
RefNums == 1..MaxRefNum

FileNameArgs == {nil, CStr(<<>>), CStr(<<"a">>)}

DiskNames == {<<>>, <<"a">>}

MessageArgs == {nil, CStr(<<>>), CStr(<<"%","d">>)}

LONG_MAX == 2147483647
LONG_MIN == -2147483647 - 1

IntArgs == {0, 7, -42, 1000, -1000, LONG_MAX, LONG_MIN + 1, LONG_MIN}

SmallIntArgs == {-7}

\* an unsigned long is the pair <<high 16 bits, low 16 bits>>
ULong(hi, lo) == <<hi, lo>>

HexArgs == {ULong(0, 0), ULong(0, 5), ULong(0, 255), ULong(0, 511), ULong(0, 171),
            ULong(0, 4096 + 160), ULong(65535, 65535), ULong(1, 0), ULong(43981, 79)}

SmallHexArgs == {ULong(0, 511)}

\* outcome of one FSWrite: all bytes and noErr; one byte less and noErr;
\* nothing and an error; one byte less and an error
WriteOutcomes == {"ok", "short", "err", "errPartial"}

AllOk == [at |-> 0, out |-> "ok"]

\* the outcomes of the FSWrite calls of one API call: the at-th write of the
\* call has outcome out, all others are ok
WriteScripts(n) ==
  {AllOk} \cup {[at |-> k, out |-> o] : k \in 1..n, o \in WriteOutcomes \ {"ok"}}

OutcomeAt(script, k) == IF k = script.at THEN script.out ELSE "ok"

\* what signed negation of LONG_MIN may leave in an unsigned long: the
\* two's-complement wrap 0x80000000, or a saturated 0x7FFFFFFF
NegOverflowResults == {ULong(32768, 0), ULong(32767, 65535)}

(***************************************************************************)
(* The machine: program statics, File Manager state and the observations   *)
(* of the call in progress.                                                *)
(***************************************************************************)
Machine ==
  [ref |-> gDebugRefNum, enabled |-> gDebugEnabled, fcb |-> fcb,
   disk |-> disk, io |-> io, beeps |-> beeps]

NoFile == [exists |-> FALSE, data |-> <<>>]

EmptyFile == [exists |-> TRUE, data |-> <<>>]

IsOpenPath(m, name) == \E r \in DOMAIN m.fcb : m.fcb[r] = name

NumWrites(m) == Cardinality({i \in 1..Len(m.io) : m.io[i].call = "FSWrite"})

IoRec(call, refNum, name, bytes, err, count) ==
  [call |-> call, ref |-> refNum, name |-> name, bytes |-> bytes,
   err |-> err, count |-> count]

SysBeep(m, duration) == [m EXCEPT !.beeps = Append(@, duration)]

\* FSClose removes the access path; its result code is the environment's
FSClose(m, refNum, err) ==
  [m EXCEPT !.fcb = [r \in (DOMAIN m.fcb) \ {refNum} |-> m.fcb[r]],
            !.io = Append(@, IoRec("FSClose", refNum, <<>>, <<>>, err, 0))]

\* FSDelete removes a file that exists and has no open access path
FSDelete(m, name, ok) ==
  LET done == ok /\ m.disk[name].exists /\ ~IsOpenPath(m, name)
      err == IF done THEN noErr ELSE ioErr
  IN [m EXCEPT !.disk = IF done THEN [@ EXCEPT ![name] = NoFile] ELSE @,
               !.io = Append(@, IoRec("FSDelete", 0, name, <<>>, err, 0))]

\* Create makes a new empty file; it fails on a name that already exists
\* (dupFNErr) and may fail on any name; no rule about names is assumed, so
\* the zero-length name DebugInit passes for "" may be created too
Create(m, name, ok) ==
  LET done == ok /\ ~m.disk[name].exists
      err == IF done THEN noErr ELSE ioErr
  IN [m |-> [m EXCEPT !.disk = IF done THEN [@ EXCEPT ![name] = EmptyFile] ELSE @,
                      !.io = Append(@, IoRec("Create", 0, name, <<>>, err, 0))],
      err |-> err]

\* FSOpen opens an access path to an existing file not already open and
\* returns the lowest free reference number
FSOpen(m, name, ok) ==
  LET free == RefNums \ DOMAIN m.fcb
      newRef == IF free = {} THEN 0 ELSE CHOOSE r \in free : \A q \in free : r <= q
      done == ok /\ m.disk[name].exists /\ ~IsOpenPath(m, name) /\ newRef # 0
      err == IF done THEN noErr ELSE ioErr
  IN [m |-> [m EXCEPT !.fcb = IF done THEN (newRef :> name) @@ @ ELSE @,
                      !.io = Append(@, IoRec("FSOpen", IF done THEN newRef ELSE 0,
                                             name, <<>>, err, 0))],
      err |-> err,
      refNum |-> IF done THEN newRef ELSE 0]

WrittenCount(outcome, len) ==
  CASE outcome = "ok" -> len
    [] outcome = "err" -> 0
    [] OTHER -> IF len > 0 THEN len - 1 ELSE 0

WriteErr(outcome) == IF outcome \in {"err", "errPartial"} THEN ioErr ELSE noErr

\* FSWrite appends at the mark of the access path; count bytes of the buffer
\* are requested, the environment decides how many arrive and the result
FSWrite(m, refNum, bytes, script) ==
  LET outcome == OutcomeAt(script, NumWrites(m) + 1)
      valid == refNum \in DOMAIN m.fcb
      n == IF valid THEN WrittenCount(outcome, Len(bytes)) ELSE 0
      err == IF valid THEN WriteErr(outcome) ELSE ioErr
  IN [m |-> [m EXCEPT !.disk = IF valid
                                 THEN [@ EXCEPT ![m.fcb[refNum]].data =
                                                    @ \o SubSeq(bytes, 1, n)]
                                 ELSE @,
                      !.io = Append(@, IoRec("FSWrite", refNum, <<>>, bytes, err, n))],
      err |-> err,
      count |-> n]

(***************************************************************************)
(* DebugInit                                                               *)
(***************************************************************************)
\* variant: the existing log is closed the way DebugClose closes it, with
\* the footer line
InitCloseExisting_WithFooter(m, env) ==
  LET m1 == IF m.ref # 0
            THEN LET w == FSWrite(m, m.ref, SubSeq(endMsg.chars, 1, MyStrLen(endMsg)),
                                  AllOk)
                 IN [FSClose(w.m, m.ref, env.closeErr)
                       EXCEPT !.ref = 0]
            ELSE m
  IN [m1 EXCEPT !.enabled = FALSE]

\* variant: the old reference number is dropped without FSClose
InitCloseExisting_NoClose(m, env) ==
  [m EXCEPT !.ref = 0, !.enabled = FALSE]

\* "Close existing log if open", then gDebugEnabled = false
InitCloseExisting(m, env) ==
  LET m1 == IF m.ref # 0
            THEN [FSClose(m, m.ref, env.closeErr) EXCEPT !.ref = 0]
            ELSE m
  IN [m1 EXCEPT !.enabled = FALSE]

\* the manual C-to-Pascal string conversion: at most 255 characters
PascalName(filename) ==
  SubSeq(filename.chars, 1, Min(MyStrLen(filename), MaxPascalLen))

\* variant: the failure path of the header write leaves gDebugEnabled set
InitWriteHeader_KeepEnabled(m, env) ==
  LET w == FSWrite(m, m.ref, SubSeq(headerMsg.chars, 1, MyStrLen(headerMsg)), env.script)
  IN IF w.err # noErr
     THEN [m |-> [FSClose(SysBeep(w.m, 4), m.ref, env.closeErr) EXCEPT !.ref = 0],
           ret |-> FALSE]
     ELSE [m |-> SysBeep(w.m, 10), ret |-> TRUE]

\* variant: the failure path of the header write leaves gDebugRefNum set
InitWriteHeader_KeepRef(m, env) ==
  LET w == FSWrite(m, m.ref, SubSeq(headerMsg.chars, 1, MyStrLen(headerMsg)), env.script)
  IN IF w.err # noErr
     THEN [m |-> [FSClose(SysBeep(w.m, 4), m.ref, env.closeErr) EXCEPT !.enabled = FALSE],
           ret |-> FALSE]
     ELSE [m |-> SysBeep(w.m, 10), ret |-> TRUE]

\* variant: the failure path of the header write does not FSClose
InitWriteHeader_NoClose(m, env) ==
  LET w == FSWrite(m, m.ref, SubSeq(headerMsg.chars, 1, MyStrLen(headerMsg)), env.script)
  IN IF w.err # noErr
     THEN [m |-> [SysBeep(w.m, 4) EXCEPT !.ref = 0, !.enabled = FALSE],
           ret |-> FALSE]
     ELSE [m |-> SysBeep(w.m, 10), ret |-> TRUE]

\* the header write and what follows it
InitWriteHeader(m, env) ==
  LET w == FSWrite(m, m.ref, SubSeq(headerMsg.chars, 1, MyStrLen(headerMsg)), env.script)
  IN IF w.err # noErr
     THEN [m |-> [FSClose(SysBeep(w.m, 4), m.ref, env.closeErr)
                    EXCEPT !.ref = 0, !.enabled = FALSE],
           ret |-> FALSE]
     ELSE [m |-> SysBeep(w.m, 10), ret |-> TRUE]

\* variant: a failed FSOpen gives the signal of a failed Create
InitOpen_BeepTwo(m, pFilename, env) ==
  LET o == FSOpen(m, pFilename, env.openOk)
  IN IF o.err # noErr
     THEN [m |-> [SysBeep(o.m, 2) EXCEPT !.ref = 0], ret |-> FALSE]
     ELSE InitWriteHeader([o.m EXCEPT !.ref = o.refNum, !.enabled = TRUE], env)

\* variant: gDebugEnabled is not set after FSOpen
InitOpen_NoEnable(m, pFilename, env) ==
  LET o == FSOpen(m, pFilename, env.openOk)
  IN IF o.err # noErr
     THEN [m |-> [SysBeep(o.m, 3) EXCEPT !.ref = 0], ret |-> FALSE]
     ELSE InitWriteHeader([o.m EXCEPT !.ref = o.refNum], env)

\* FSOpen, then "Enable debug logging"
InitOpen(m, pFilename, env) ==
  LET o == FSOpen(m, pFilename, env.openOk)
  IN IF o.err # noErr
     THEN [m |-> [SysBeep(o.m, 3) EXCEPT !.ref = 0], ret |-> FALSE]
     ELSE InitWriteHeader([o.m EXCEPT !.ref = o.refNum, !.enabled = TRUE], env)

\* variant: the result of Create is not tested
InitCreate_IgnoreCreateErr(m, pFilename, env) ==
  LET d == FSDelete(m, pFilename, env.deleteOk)
      c == Create(d, pFilename, env.createOk)
  IN InitOpen(c.m, pFilename, env)

InitCreate(m, pFilename, env) ==
  LET d == FSDelete(m, pFilename, env.deleteOk)
      c == Create(d, pFilename, env.createOk)
  IN IF c.err # noErr
     THEN [m |-> SysBeep(c.m, 2), ret |-> FALSE]
     ELSE InitOpen(c.m, pFilename, env)

\* variant: the nil check comes before the close of the existing log
DebugInit_NilFirst(m, filename, env) ==
  IF filename.nil
  THEN [m |-> SysBeep([m EXCEPT !.enabled = FALSE], 1), ret |-> FALSE]
  ELSE InitCreate(InitCloseExisting(m, env), PascalName(filename), env)

DebugInit(m, filename, env) ==
  LET m1 == InitCloseExisting(m, env)
  IN IF filename.nil
     THEN [m |-> SysBeep(m1, 1), ret |-> FALSE]
     ELSE InitCreate(m1, PascalName(filename), env)

(***************************************************************************)
(* DebugLog                                                                *)
(***************************************************************************)
\* variant: a failed message write switches the logger off
LogWrite_DisableOnFail(m, message, env) ==
  LET msgLen == MyStrLen(message)
      w == FSWrite(m, m.ref, SubSeq(message.chars, 1, msgLen), env.script)
  IN IF w.err # noErr \/ w.count # msgLen
     THEN [SysBeep(w.m, 20) EXCEPT !.enabled = FALSE]
     ELSE LET n == FSWrite(w.m, m.ref, <<newline>>, env.script)
          IN IF n.err # noErr THEN SysBeep(n.m, 21) ELSE n.m

\* variant: only the result code of the message write is tested
LogWrite_NoCountCheck(m, message, env) ==
  LET msgLen == MyStrLen(message)
      w == FSWrite(m, m.ref, SubSeq(message.chars, 1, msgLen), env.script)
  IN IF w.err # noErr
     THEN SysBeep(w.m, 20)
     ELSE LET n == FSWrite(w.m, m.ref, <<newline>>, env.script)
          IN IF n.err # noErr THEN SysBeep(n.m, 21) ELSE n.m

\* the message write, then the newline write
LogWrite(m, message, env) ==
  LET msgLen == MyStrLen(message)
      w == FSWrite(m, m.ref, SubSeq(message.chars, 1, msgLen), env.script)
  IN IF w.err # noErr \/ w.count # msgLen
     THEN SysBeep(w.m, 20)
     ELSE LET n == FSWrite(w.m, m.ref, <<newline>>, env.script)
          IN IF n.err # noErr THEN SysBeep(n.m, 21) ELSE n.m

\* variant: the empty message is not rejected
DebugLog_NoEmptyCheck(m, message, env) ==
  IF ~m.enabled THEN SysBeep(m, 5)
  ELSE IF m.ref = 0 THEN SysBeep(m, 6)
  ELSE IF message.nil THEN SysBeep(m, 7)
  ELSE LogWrite(m, message, env)

DebugLog(m, message, env) ==
  IF ~m.enabled THEN SysBeep(m, 5)
  ELSE IF m.ref = 0 THEN SysBeep(m, 6)
  ELSE IF message.nil THEN SysBeep(m, 7)
  ELSE IF MyStrLen(message) = 0 THEN SysBeep(m, 8)
  ELSE LogWrite(m, message, env)

(***************************************************************************)
(* DebugLogFormat, DebugFlush, DebugClose, DebugIsEnabled                  *)
(***************************************************************************)
\* variant: a "%d" format is replaced by the first argument, taken as a digit
DebugLogFormat_Interpolate(m, format, args, env) ==
  IF ~format.nil
  THEN IF format.chars = <<"%", "d">> /\ Len(args) > 0
       THEN DebugLog(m, CStr(<<decChars[args[1] + 1]>>), env)
       ELSE DebugLog(m, format, env)
  ELSE m

\* the variable arguments are never read
DebugLogFormat(m, format, args, env) ==
  IF ~format.nil THEN DebugLog(m, format, env) ELSE m

DebugFlush(m) == m

\* variant: the handle is released only when the footer write succeeded
DebugClose_CloseOnlyIfWritten(m, env) ==
  LET m1 == IF m.ref # 0
            THEN LET w == FSWrite(m, m.ref, SubSeq(endMsg.chars, 1, MyStrLen(endMsg)),
                                  env.script)
                 IN IF w.err # noErr THEN w.m
                    ELSE [FSClose(w.m, m.ref, env.closeErr) EXCEPT !.ref = 0]
            ELSE m
  IN [m1 EXCEPT !.enabled = FALSE]

\* variant: gDebugRefNum is not reset after FSClose
DebugClose_KeepRef(m, env) ==
  LET m1 == IF m.ref # 0
            THEN LET w == FSWrite(m, m.ref, SubSeq(endMsg.chars, 1, MyStrLen(endMsg)),
                                  env.script)
                 IN FSClose(w.m, m.ref, env.closeErr)
            ELSE m
  IN [m1 EXCEPT !.enabled = FALSE]

DebugClose(m, env) ==
  LET m1 == IF m.ref # 0
            THEN LET w == FSWrite(m, m.ref, SubSeq(endMsg.chars, 1, MyStrLen(endMsg)),
                                  env.script)
                 IN [FSClose(w.m, m.ref, env.closeErr) EXCEPT !.ref = 0]
            ELSE m
  IN [m1 EXCEPT !.enabled = FALSE]

DebugIsEnabled(m) == m.enabled

(***************************************************************************)
(* DebugLogInt                                                             *)
(***************************************************************************)
UL_IsZero(u) == u[1] = 0 /\ u[2] = 0

UL_Mod10(u) == ((u[1] % 10) * 65536 + u[2]) % 10

UL_Div10(u) == <<u[1] \div 10, ((u[1] % 10) * 65536 + u[2]) \div 10>>

\* conversion of a non-negative long to unsigned long
ULongOfLong(v) == ULong(v \div 65536, v % 65536)

\* "absVal = -value" negates in signed long and converts the result; for
\* LONG_MIN the signed negation overflows and the result is the build's
NegateLong(value, env) ==
  IF value = LONG_MIN THEN env.negOverflow ELSE ULongOfLong(0 - value)

AbsVal(value, env) ==
  IF value < 0 THEN NegateLong(value, env) ELSE ULongOfLong(value)

RECURSIVE DigitLoop(_, _)
\* "Build digits in reverse": while (absVal > 0 && i < 19)
DigitLoop(absVal, numBuf) ==
  IF ~UL_IsZero(absVal) /\ Len(numBuf) < NumBufDigits
  THEN DigitLoop(UL_Div10(absVal), Append(numBuf, decChars[UL_Mod10(absVal) + 1]))
  ELSE numBuf

\* numBuf after the conversion; numBuf[0] of the code is element 1
BuildNumBuf(value, env) ==
  LET absVal == AbsVal(value, env)
      digits == IF UL_IsZero(absVal) THEN <<"0">> ELSE DigitLoop(absVal, <<>>)
  IN IF value < 0 THEN Append(digits, "-") ELSE digits

RECURSIVE IntWriteLoop_IgnoreErr(_, _, _, _)
\* variant: the loop does not stop at a failed write
IntWriteLoop_IgnoreErr(m, numBuf, j, env) ==
  IF j < 1 THEN [m |-> m, err |-> noErr]
  ELSE LET w == FSWrite(m, m.ref, <<numBuf[j]>>, env.script)
       IN IntWriteLoop_IgnoreErr(w.m, numBuf, j - 1, env)

RECURSIVE IntWriteLoop(_, _, _, _)
\* "Write digits in correct order": for (j = i - 1; j >= 0; j--)
IntWriteLoop(m, numBuf, j, env) ==
  IF j < 1 THEN [m |-> m, err |-> noErr]
  ELSE LET w == FSWrite(m, m.ref, <<numBuf[j]>>, env.script)
       IN IF w.err # noErr THEN [m |-> w.m, err |-> w.err]
          ELSE IntWriteLoop(w.m, numBuf, j - 1, env)

\* the number, then the newline
IntWriteNumber(m, value, env) ==
  LET numBuf == BuildNumBuf(value, env)
      d == IntWriteLoop(m, numBuf, Len(numBuf), env)
  IN IF d.err # noErr THEN d.m
     ELSE FSWrite(d.m, m.ref, <<newline>>, env.script).m

DebugLogInt(m, message, value, env) ==
  IF ~m.enabled \/ m.ref = 0 \/ message.nil THEN m
  ELSE LET msgLen == MyStrLen(message)
       IN IF msgLen > 0
          THEN LET w == FSWrite(m, m.ref, SubSeq(message.chars, 1, msgLen), env.script)
               IN IF w.err # noErr THEN w.m ELSE IntWriteNumber(w.m, value, env)
          ELSE IntWriteNumber(m, value, env)

(***************************************************************************)
(* DebugLogHex                                                             *)
(***************************************************************************)
\* variant: value >> 8
UL_Shr8(u) == ULong(u[1] \div 256, (u[1] % 256) * 256 + u[2] \div 256)

\* value >> 4
UL_Shr4(u) == ULong(u[1] \div 16, (u[1] % 16) * 4096 + u[2] \div 16)

\* value & 0x0F
UL_And0F(u) == u[2] % 16

\* hexBuf for the "2 digits for byte value"
HexDigits(value) ==
  <<hexChars[UL_And0F(UL_Shr4(value)) + 1], hexChars[UL_And0F(value) + 1]>>

\* variant: a failed prefix write ends the call
DebugLogHex_AbortOnPrefixErr(m, message, value, env) ==
  IF ~m.enabled \/ m.ref = 0 \/ message.nil THEN m
  ELSE LET msgLen == MyStrLen(message)
           w == FSWrite(m, m.ref, SubSeq(message.chars, 1, msgLen), env.script)
           m1 == IF msgLen > 0 THEN w.m ELSE m
           m2 == FSWrite(m1, m.ref, <<"0", "x">>, env.script).m
           m3 == FSWrite(m2, m.ref, HexDigits(value), env.script).m
       IN IF msgLen > 0 /\ w.err # noErr THEN w.m
          ELSE FSWrite(m3, m.ref, <<newline>>, env.script).m

DebugLogHex(m, message, value, env) ==
  IF ~m.enabled \/ m.ref = 0 \/ message.nil THEN m
  ELSE LET msgLen == MyStrLen(message)
           m1 == IF msgLen > 0
                 THEN FSWrite(m, m.ref, SubSeq(message.chars, 1, msgLen), env.script).m
                 ELSE m
           m2 == FSWrite(m1, m.ref, <<"0", "x">>, env.script).m
           m3 == FSWrite(m2, m.ref, HexDigits(value), env.script).m
       IN FSWrite(m3, m.ref, <<newline>>, env.script).m

(***************************************************************************)
(* The expected content of a session, in the record shapes of the log:     *)
(* "<message>\r", "<message><decimal>\r", "<message>0x<2 hex digits>\r".   *)
(***************************************************************************)
RECURSIVE RefDigits(_)
\* the decimal digits of the magnitude of n, for n <= 0, most significant first
RefDigits(n) ==
  IF n > -10 THEN <<decChars[(0 - n) + 1]>>
  ELSE LET d == (10 - (n % 10)) % 10
       IN RefDigits((n + d) \div 10) \o <<decChars[d + 1]>>

\* the decimal representation of a long
RefDecimal(v) ==
  IF v < 0 THEN <<"-">> \o RefDigits(v) ELSE RefDigits(0 - v)

\* the two uppercase hexadecimal digits of the low byte of an unsigned long
RefHexByte(u) ==
  LET b == u[2] % 256
  IN <<hexChars[(b \div 16) + 1], hexChars[(b % 16) + 1]>>

NoSession == [active |-> FALSE, closed |-> FALSE, name |-> <<>>, records |-> <<>>]

\* every FSWrite of the trace reported noErr and its full count
AllWritten(trace) ==
  \A i \in 1..Len(trace) :
     trace[i].call = "FSWrite" =>
        trace[i].err = noErr /\ trace[i].count = Len(trace[i].bytes)

\* the record a call of the append family is expected to leave, <<>> when
\* its arguments do not pass its preconditions
ExpectedRecord(call) ==
  CASE call.op \in {"DebugLog", "DebugLogFormat"} ->
         IF call.str.nil \/ MyStrLen(call.str) = 0 THEN <<>>
         ELSE call.str.chars \o <<"\r">>
    [] call.op = "DebugLogInt" ->
         IF call.str.nil THEN <<>>
         ELSE call.str.chars \o RefDecimal(call.val) \o <<"\r">>
    [] call.op = "DebugLogHex" ->
         IF call.str.nil THEN <<>>
         ELSE call.str.chars \o <<"0", "x">> \o RefHexByte(call.uval) \o <<"\r">>
    [] OTHER -> <<>>

\* the session after a call that left machine m
SessionAfter(call, m) ==
  CASE call.op = "DebugInit" ->
         IF call.ret /\ AllWritten(m.io)
         THEN [active |-> TRUE, closed |-> FALSE, name |-> m.fcb[m.ref],
               records |-> <<>>]
         ELSE NoSession
    [] call.op \in {"DebugLog", "DebugLogFormat", "DebugLogInt", "DebugLogHex"} ->
         IF ~session.active \/ session.closed \/ ExpectedRecord(call) = <<>>
         THEN session
         ELSE IF AllWritten(m.io)
              THEN [session EXCEPT !.records = Append(@, ExpectedRecord(call))]
              ELSE NoSession
    [] call.op = "DebugClose" ->
         IF ~session.active \/ session.closed THEN session
         ELSE IF AllWritten(m.io) THEN [session EXCEPT !.closed = TRUE]
              ELSE NoSession
    [] OTHER -> session

(***************************************************************************)
(* The calls of the API as actions.  Each call starts with empty io and    *)
(* beeps, runs the whole function and stores what it leaves.               *)
(***************************************************************************)
Start == [Machine EXCEPT !.io = <<>>, !.beeps = <<>>]

Call(op, str, val, uval, ret) ==
  [op |-> op, str |-> str, val |-> val, uval |-> uval, ret |-> ret]

Commit(m, call) ==
  /\ gDebugRefNum' = m.ref
  /\ gDebugEnabled' = m.enabled
  /\ fcb' = m.fcb
  /\ disk' = m.disk
  /\ io' = m.io
  /\ beeps' = m.beeps
  /\ lastCall' = call
  /\ ops' = ops + 1
  /\ session' = SessionAfter(call, m)

OSErrs == {noErr, ioErr}

\* the environment in which every File Manager call succeeds
BaseEnv ==
  [closeErr |-> noErr, deleteOk |-> TRUE, createOk |-> TRUE, openOk |-> TRUE,
   script |-> AllOk, negOverflow |-> ULong(32768, 0)]

\* the environments of a call that makes at most n writes and nothing else
WriteEnvs(n) == {[BaseEnv EXCEPT !.script = s] : s \in WriteScripts(n)}

InitEnvs ==
  [closeErr : OSErrs, deleteOk : BOOLEAN, createOk : BOOLEAN, openOk : BOOLEAN,
   script : WriteScripts(1), negOverflow : {ULong(32768, 0)}]

CloseEnvs == {[e EXCEPT !.closeErr = c] : e \in WriteEnvs(1), c \in OSErrs}

\* the number of writes DebugLogInt makes when none fails
IntWrites(message, value, env) ==
  (IF MyStrLen(message) > 0 THEN 1 ELSE 0) + Len(BuildNumBuf(value, env)) + 1

IntEnvs(message, value) ==
  UNION {{[e EXCEPT !.negOverflow = u] :
             e \in WriteEnvs(IntWrites(message, value, [BaseEnv EXCEPT !.negOverflow = u]))} :
         u \in IF value = LONG_MIN THEN NegOverflowResults ELSE {ULong(32768, 0)}}

HexEnvs(message) == WriteEnvs(IF MyStrLen(message) > 0 THEN 4 ELSE 3)

DebugInitCall ==
  /\ ops < MaxOps
  /\ \E filename \in FileNameArgs, env \in InitEnvs :
        LET r == DebugInit(Start, filename, env)
        IN Commit(r.m, Call("DebugInit", filename, 0, ULong(0, 0), r.ret))

DebugLogCall ==
  /\ ops < MaxOps
  /\ \E message \in MessageArgs, env \in WriteEnvs(2) :
        Commit(DebugLog(Start, message, env),
               Call("DebugLog", message, 0, ULong(0, 0), FALSE))

LogIntStep(values) ==
  /\ ops < MaxOps
  /\ \E message \in MessageArgs, value \in values :
        \E env \in IntEnvs(message, value) :
           Commit(DebugLogInt(Start, message, value, env),
                  Call("DebugLogInt", message, value, ULong(0, 0), FALSE))

DebugLogIntCall == LogIntStep(SmallIntArgs)

LogHexStep(values) ==
  /\ ops < MaxOps
  /\ \E message \in MessageArgs, value \in values :
        \E env \in HexEnvs(message) :
           Commit(DebugLogHex(Start, message, value, env),
                  Call("DebugLogHex", message, 0, value, FALSE))

DebugLogHexCall == LogHexStep(SmallHexArgs)

\* DebugLogInt over the wide range of values, every write succeeding
DebugLogIntWide ==
  /\ ops < MaxOps
  /\ \E message \in MessageArgs, value \in IntArgs :
        \E u \in IF value = LONG_MIN THEN NegOverflowResults ELSE {ULong(32768, 0)} :
           Commit(DebugLogInt(Start, message, value, [BaseEnv EXCEPT !.negOverflow = u]),
                  Call("DebugLogInt", message, value, ULong(0, 0), FALSE))

\* DebugLogHex over the wide range of values, every write succeeding
DebugLogHexWide ==
  /\ ops < MaxOps
  /\ \E message \in MessageArgs, value \in HexArgs :
        Commit(DebugLogHex(Start, message, value, BaseEnv),
               Call("DebugLogHex", message, 0, value, FALSE))

\* the variable arguments of DebugLogFormat
FormatArgs == {<<>>, <<5>>}

DebugLogFormatCall ==
  /\ ops < MaxOps
  /\ \E format \in MessageArgs, args \in FormatArgs, env \in WriteEnvs(2) :
        Commit(DebugLogFormat(Start, format, args, env),
               Call("DebugLogFormat", format, 0, ULong(0, 0), FALSE))

DebugFlushCall ==
  /\ ops < MaxOps
  /\ Commit(DebugFlush(Start), Call("DebugFlush", nil, 0, ULong(0, 0), FALSE))

DebugCloseCall ==
  /\ ops < MaxOps
  /\ \E env \in CloseEnvs :
        Commit(DebugClose(Start, env), Call("DebugClose", nil, 0, ULong(0, 0), FALSE))

DebugIsEnabledCall ==
  /\ ops < MaxOps
  /\ Commit(Start, Call("DebugIsEnabled", nil, 0, ULong(0, 0), DebugIsEnabled(Start)))

Init ==
  /\ gDebugRefNum = 0
  /\ gDebugEnabled = FALSE
  /\ fcb = <<>>
  /\ disk = [n \in DiskNames |-> NoFile]
  /\ io = <<>>
  /\ beeps = <<>>
  /\ lastCall = Call("none", nil, 0, ULong(0, 0), FALSE)
  /\ ops = 0
  /\ session = NoSession

Next ==
  \/ DebugInitCall
  \/ DebugLogCall
  \/ DebugLogIntCall
  \/ DebugLogHexCall
  \/ DebugLogFormatCall
  \/ DebugFlushCall
  \/ DebugCloseCall
  \/ DebugIsEnabledCall

Spec == Init /\ [][Next]_vars

NextInt ==
  \/ DebugInitCall
  \/ DebugLogIntWide

SpecInt == Init /\ [][NextInt]_vars

NextHex ==
  \/ DebugInitCall
  \/ DebugLogHexWide

SpecHex == Init /\ [][NextHex]_vars

\* whole sessions over the wide range of values: DebugInit, appends whose
\* writes all succeed, DebugClose
NextSession ==
  \/ DebugInitCall
  \/ DebugLogIntWide
  \/ DebugLogHexWide
  \/ DebugCloseCall

SpecSession == Init /\ [][NextSession]_vars

(***************************************************************************)
(* Properties.                                                             *)
(***************************************************************************)
IoCalls(trace, call) == {i \in 1..Len(trace) : trace[i].call = call}

\* the call of the given kind was issued in the trace and reported noErr
Succeeded(trace, call) ==
  \E i \in IoCalls(trace, call) : trace[i].err = noErr

\* the logger holds a handle that is an open access path
HandleOpen == gDebugRefNum # 0 /\ gDebugRefNum \in DOMAIN fcb

\* the content of the file behind the logger's handle
LogData == disk[fcb[gDebugRefNum]].data

NonEmptyName(str) == ~str.nil /\ MyStrLen(str) > 0

\* C1: after every call of the API, under every outcome of the File Manager
\* calls, gDebugEnabled implies that gDebugRefNum is non-zero and is an open
\* access path to an existing file.
C1_EnabledImpliesOpenHandle ==
  gDebugEnabled =>
    /\ gDebugRefNum # 0
    /\ gDebugRefNum \in DOMAIN fcb
    /\ disk[fcb[gDebugRefNum]].exists

\* the logger is still enabled with its handle open after a DebugLog whose
\* write reported an error
C1_Witness ==
  /\ gDebugEnabled
  /\ HandleOpen
  /\ lastCall.op = "DebugLog"
  /\ \E i \in 1..Len(io) : io[i].err # noErr

\* C2: at most one access path opened by the logger is open at any time, also
\* after DebugInit is called again without a DebugClose in between.
C2_AtMostOneHandle == Cardinality(DOMAIN fcb) <= 1

\* a successful DebugInit that first closed the handle of an earlier one
C2_Witness ==
  /\ lastCall.op = "DebugInit"
  /\ lastCall.ret
  /\ Len(io) > 0
  /\ io[1].call = "FSClose"
  /\ Cardinality(DOMAIN fcb) = 1

\* C3: for a non-empty name, DebugInit returns true iff Create, FSOpen and the
\* header FSWrite all report noErr, gDebugEnabled then equals the value
\* returned, and a DebugIsEnabled called right after returns that value.
C3_InitSuccessIff ==
  [][/\ (lastCall'.op = "DebugInit" /\ NonEmptyName(lastCall'.str)) =>
          /\ lastCall'.ret <=> (/\ Succeeded(io', "Create")
                                /\ Succeeded(io', "FSOpen")
                                /\ Succeeded(io', "FSWrite"))
          /\ gDebugEnabled' = lastCall'.ret
     /\ (/\ lastCall.op = "DebugInit"
         /\ NonEmptyName(lastCall.str)
         /\ lastCall'.op = "DebugIsEnabled") =>
          lastCall'.ret = lastCall.ret]_vars

\* DebugIsEnabled returns true as the second call, right after a successful
\* DebugInit
C3_Witness ==
  /\ ops = 2
  /\ lastCall.op = "DebugIsEnabled"
  /\ lastCall.ret

\* C4: when DebugInit returns false, gDebugEnabled is false, gDebugRefNum is 0
\* and no access path opened during the call is still open.
C4_FailedInitLeavesNothing ==
  (lastCall.op = "DebugInit" /\ ~lastCall.ret) =>
    /\ ~gDebugEnabled
    /\ gDebugRefNum = 0
    /\ \A i \in IoCalls(io, "FSOpen") :
          io[i].err = noErr => io[i].ref \notin DOMAIN fcb

\* a DebugInit that failed at the header write after a successful FSOpen
C4_Witness ==
  /\ lastCall.op = "DebugInit"
  /\ ~lastCall.ret
  /\ Succeeded(io, "FSOpen")
  /\ \E i \in IoCalls(io, "FSWrite") : io[i].err # noErr

C6_LogPreconditionNoWrite ==
  [][(/\ lastCall'.op = "DebugLog"
      /\ (~gDebugEnabled \/ lastCall'.str.nil \/ MyStrLen(lastCall'.str) = 0)) =>
       /\ io' = <<>>
       /\ disk' = disk
       /\ fcb' = fcb
       /\ gDebugRefNum' = gDebugRefNum
       /\ gDebugEnabled' = gDebugEnabled]_vars

\* DebugLog of the empty message on an enabled logger: signal 8, no I/O
C6_Witness ==
  /\ lastCall.op = "DebugLog"
  /\ lastCall.str = CStr(<<>>)
  /\ gDebugEnabled
  /\ io = <<>>
  /\ beeps = <<8>>

C8_IntDecimal ==
  [][(/\ lastCall'.op = "DebugLogInt"
      /\ gDebugEnabled
      /\ HandleOpen
      /\ ~lastCall'.str.nil) =>
       LogData' = LogData \o lastCall'.str.chars \o RefDecimal(lastCall'.val)
                          \o <<"\r">>]_vars

\* C9: on an enabled logger with every write succeeding, DebugLogHex appends
\* exactly the prefix, "0x", the two uppercase hexadecimal digits of
\* (value mod 256) and "\r"; the bits above bit 7 have no influence.
C9_HexLowByte ==
  [][(/\ lastCall'.op = "DebugLogHex"
      /\ gDebugEnabled
      /\ HandleOpen
      /\ ~lastCall'.str.nil) =>
       LET b == lastCall'.uval[2] % 256
       IN LogData' = LogData \o lastCall'.str.chars \o <<"0", "x">>
                             \o <<hexChars[(b \div 16) + 1], hexChars[(b % 16) + 1]>>
                             \o <<"\r">>]_vars

\* DebugLogHex("%d", 0x1FF) has appended "%d0xFF\r"
C9_Witness ==
  /\ lastCall.op = "DebugLogHex"
  /\ lastCall.uval = ULong(0, 511)
  /\ lastCall.str = CStr(<<"%", "d">>)
  /\ HandleOpen
  /\ Len(LogData) >= 7
  /\ SubSeq(LogData, Len(LogData) - 6, Len(LogData)) =
        <<"%", "d", "0", "x", "F", "F", "\r">>

C11_CloseAlwaysReleases ==
  [][(lastCall'.op = "DebugClose") =>
       /\ ~gDebugEnabled'
       /\ gDebugRefNum' = 0
       /\ IF gDebugRefNum # 0
          THEN /\ Len(io') = 2
               /\ io'[1].call = "FSWrite"
               /\ io'[1].ref = gDebugRefNum
               /\ io'[1].bytes = endMsg.chars
               /\ io'[2].call = "FSClose"
               /\ io'[2].ref = gDebugRefNum
               /\ gDebugRefNum \notin DOMAIN fcb'
          ELSE /\ io' = <<>>
               /\ disk' = disk
               /\ fcb' = fcb]_vars

\* a DebugClose whose footer write reported an error and that released the
\* handle all the same
C11_Witness ==
  /\ lastCall.op = "DebugClose"
  /\ Len(io) = 2
  /\ io[1].err # noErr
  /\ io[2].call = "FSClose"
  /\ gDebugRefNum = 0
  /\ ~gDebugEnabled
  /\ fcb = <<>>

\* C12: a DebugClose called right after a DebugClose changes nothing: it
\* issues no File Manager call, writes no footer and leaves the files, the
\* access paths, gDebugRefNum and gDebugEnabled as the first one left them.
C12_CloseIdempotent ==
  [][(lastCall.op = "DebugClose" /\ lastCall'.op = "DebugClose") =>
       /\ io' = <<>>
       /\ beeps' = <<>>
       /\ disk' = disk
       /\ fcb' = fcb
       /\ gDebugRefNum' = gDebugRefNum
       /\ gDebugEnabled' = gDebugEnabled]_vars

\* DebugInit, DebugClose, DebugClose: the file holds header and footer once
\* and the last DebugClose did no I/O
C12_Witness ==
  /\ ops = 3
  /\ lastCall.op = "DebugClose"
  /\ io = <<>>
  /\ disk[<<"a">>].data = headerMsg.chars \o endMsg.chars

RECURSIVE Flatten(_)
\* the records of a session one after the other
Flatten(records) ==
  IF records = <<>> THEN <<>> ELSE Head(records) \o Flatten(Tail(records))

\* C14: for every session of a successful DebugInit, then calls of DebugLog,
\* DebugLogInt, DebugLogHex and DebugLogFormat, then DebugClose, with every
\* write arriving in full, the file holds exactly the header line, then in
\* call order the record of each call that passed its preconditions, then
\* the footer line.
C14_SessionContent ==
  (session.active /\ session.closed) =>
    disk[session.name].data =
       headerMsg.chars \o Flatten(session.records) \o endMsg.chars

AppendOps == {"DebugLog", "DebugLogInt", "DebugLogHex", "DebugLogFormat"}

\* C15: DebugLog, DebugLogInt, DebugLogHex, DebugLogFormat and DebugFlush
\* never change gDebugEnabled or gDebugRefNum, nor the open access paths,
\* whatever their writes report.
C15_AppendsKeepHandle ==
  [][(lastCall'.op \in AppendOps \cup {"DebugFlush"}) =>
       /\ gDebugEnabled' = gDebugEnabled
       /\ gDebugRefNum' = gDebugRefNum
       /\ fcb' = fcb]_vars

\* the logger is still enabled with its handle after a DebugLogInt that
\* stopped at a failed write
C15_Witness ==
  /\ lastCall.op = "DebugLogInt"
  /\ gDebugEnabled
  /\ HandleOpen
  /\ Len(io) >= 1
  /\ io[Len(io)].err # noErr

RECURSIVE Delivered(_)
\* the bytes the writes of a trace put into the file, in order
Delivered(trace) ==
  IF trace = <<>> THEN <<>>
  ELSE (IF Head(trace).call = "FSWrite"
        THEN SubSeq(Head(trace).bytes, 1, Head(trace).count)
        ELSE <<>>) \o Delivered(Tail(trace))

\* C16: in DebugLogInt the first write that reports an error is the last
\* write of the call: the prefix write, then one-byte writes of sign and
\* digits, then the terminator are issued in that order and cut off after the
\* first error, so no byte and no terminator follows it; what the writes
\* delivered before it stays in the file.
C16_IntAbortsOnFirstError ==
  [][(/\ lastCall'.op = "DebugLogInt"
      /\ gDebugEnabled
      /\ HandleOpen
      /\ ~lastCall'.str.nil) =>
       LET t == io'
           first == IF MyStrLen(lastCall'.str) > 0 THEN 2 ELSE 1
           errs == {i \in 1..Len(t) : t[i].err # noErr}
       IN /\ Len(t) >= 1
          /\ \A i \in 1..Len(t) : t[i].call = "FSWrite" /\ t[i].ref = gDebugRefNum
          /\ first = 2 => t[1].bytes = lastCall'.str.chars
          /\ \A i \in first..Len(t) : Len(t[i].bytes) = 1
          /\ \A i \in first..(Len(t) - 1) : t[i].bytes # <<"\r">>
          /\ errs \subseteq {Len(t)}
          /\ errs = {} => Len(t) >= first + 1 /\ t[Len(t)].bytes = <<"\r">>
          /\ LogData' = LogData \o Delivered(t)]_vars

\* DebugLogInt("%d", -7): the prefix arrived, the write of "-" reported an
\* error and nothing followed; "%d" is in the file
C16_Witness ==
  /\ lastCall.op = "DebugLogInt"
  /\ Len(io) = 2
  /\ io[1].bytes = <<"%", "d">>
  /\ io[1].count = 2
  /\ io[2].bytes = <<"-">>
  /\ io[2].err # noErr
  /\ HandleOpen
  /\ Len(LogData) >= 2
  /\ SubSeq(LogData, Len(LogData) - 1, Len(LogData)) = <<"%", "d">>

\* C17: on an enabled logger DebugLogHex issues the prefix write (for a
\* non-empty prefix), the "0x" write, the two-digit write and the terminator
\* write, all of them and in that order, whatever any of them reports.
C17_HexIgnoresWriteResults ==
  [][(/\ lastCall'.op = "DebugLogHex"
      /\ gDebugEnabled
      /\ gDebugRefNum # 0
      /\ ~lastCall'.str.nil) =>
       LET t == io'
           all == (IF MyStrLen(lastCall'.str) > 0 THEN <<lastCall'.str.chars>> ELSE <<>>)
                     \o << <<"0", "x">>, RefHexByte(lastCall'.uval), <<"\r">> >>
       IN /\ Len(t) = Len(all)
          /\ \A i \in 1..Len(t) :
                t[i].call = "FSWrite" /\ t[i].ref = gDebugRefNum /\ t[i].bytes = all[i]]_vars

\* a DebugLogHex whose prefix write reported an error and that issued the
\* other three writes all the same
C17_Witness ==
  /\ lastCall.op = "DebugLogHex"
  /\ Len(io) = 4
  /\ io[1].err # noErr
  /\ io[2].bytes = <<"0", "x">>
  /\ io[3].bytes = <<"F", "F">>
  /\ io[4].bytes = <<"\r">>

\* the signal of the exit site of DebugInit, from its argument and the
\* results of its File Manager calls
InitSignal(call, trace) ==
  IF call.str.nil THEN 1
  ELSE IF ~Succeeded(trace, "Create") THEN 2
  ELSE IF ~Succeeded(trace, "FSOpen") THEN 3
  ELSE IF ~Succeeded(trace, "FSWrite") THEN 4
  ELSE 10

\* the signals of DebugLog, from the state before the call, its argument and
\* the results of its writes
LogSignals(enabled, refNum, call, trace) ==
  IF ~enabled THEN <<5>>
  ELSE IF refNum = 0 THEN <<6>>
  ELSE IF call.str.nil THEN <<7>>
  ELSE IF MyStrLen(call.str) = 0 THEN <<8>>
  ELSE IF trace[1].err # noErr \/ trace[1].count # Len(trace[1].bytes) THEN <<20>>
  ELSE IF trace[2].err # noErr THEN <<21>>
  ELSE <<>>

SignalCodes == {1, 2, 3, 4, 10, 5, 6, 7, 8, 20, 21}

\* C18: every DebugInit emits exactly one signal, that of its exit site (nil
\* name 1, Create failed 2, FSOpen failed 3, header write failed 4, success
\* 10); every DebugLog emits at most one, that of the first failing check in
\* the order enabled 5, handle 6, nil message 7, empty message 8, message
\* write 20, terminator write 21, and none on success; the eleven codes are
\* pairwise distinct.
C18_OneSignalPerSite ==
  [][/\ (lastCall'.op = "DebugInit") =>
          /\ beeps' = <<InitSignal(lastCall', io')>>
          /\ lastCall'.ret <=> (beeps' = <<10>>)
     /\ (lastCall'.op = "DebugLog") =>
          /\ beeps' = LogSignals(gDebugEnabled, gDebugRefNum, lastCall', io')
          /\ Len(beeps') <= 1
     /\ Cardinality(SignalCodes) = 11
     /\ \A i \in 1..Len(beeps') : beeps'[i] \in SignalCodes]_vars

\* a DebugInit that left at the failed FSOpen with signal 3
C18_Witness ==
  /\ lastCall.op = "DebugInit"
  /\ ~lastCall.ret
  /\ beeps = <<3>>
  /\ Succeeded(io, "Create")
  /\ ~Succeeded(io, "FSOpen")

\* C19: after every call a non-zero gDebugRefNum implies gDebugEnabled, so
\* the second check of DebugLog never fails on its own: no call emits the
\* signal 6.
C19_HandleImpliesEnabled ==
  /\ gDebugRefNum # 0 => gDebugEnabled
  /\ \A i \in 1..Len(beeps) : beeps[i] # 6

\* a DebugLog on an enabled logger went past both checks to its first write
C19_Witness ==
  /\ lastCall.op = "DebugLog"
  /\ gDebugEnabled
  /\ gDebugRefNum # 0
  /\ Len(io) >= 1
  /\ io[1].call = "FSWrite"

\* C20: a DebugInit that returns false on an enabled logger has closed the
\* previously open handle with FSClose as its first File Manager call and
\* without writing the footer line, and leaves the logger disabled with no
\* handle; an append called right after it writes nothing.
C20_FailedInitEndsSession ==
  [][/\ (lastCall'.op = "DebugInit" /\ ~lastCall'.ret /\ gDebugEnabled) =>
          /\ Len(io') >= 1
          /\ io'[1].call = "FSClose"
          /\ io'[1].ref = gDebugRefNum
          /\ \A i \in IoCalls(io', "FSWrite") : io'[i].bytes # endMsg.chars
          /\ fcb' = <<>>
          /\ ~gDebugEnabled'
          /\ gDebugRefNum' = 0
     /\ (/\ lastCall.op = "DebugInit"
         /\ ~lastCall.ret
         /\ lastCall'.op \in AppendOps) =>
          /\ io' = <<>>
          /\ disk' = disk]_vars

\* a DebugInit on an enabled logger that failed at Create after closing the
\* old handle
C20_Witness ==
  /\ lastCall.op = "DebugInit"
  /\ ~lastCall.ret
  /\ Len(io) = 3
  /\ io[1].call = "FSClose"
  /\ io[1].ref # 0
  /\ io[3].call = "Create"
  /\ io[3].err # noErr
  /\ ~gDebugEnabled
  /\ gDebugRefNum = 0

====
